---- MODULE Spec2Model ----
(***************************************************************************)
(* Model of news_terminal/scraper.py: ArticleScraper.fetch_article with    *)
(* its helpers _scrape_url, _search_alternative_sources, _is_news_url and  *)
(* _get_domain.  Strings are TLA+ strings handled character by character   *)
(* (Len, SubSeq, \o), the way the Python code handles them.                *)
(***************************************************************************)
EXTENDS Integers, Sequences, FiniteSets, TLC

VARIABLES
    \* ---- one fetch_article(url, title) call
    url,        \* argument url: None, "" or a string
    title,      \* argument title: None, "" or a string
    pc,         \* position inside fetch_article
    alt_urls,   \* list returned by _search_alternative_sources
    idx,        \* position of the for loop over alt_urls (1-based)
    result,     \* the returned pair <<content, source_info>>, NoResult before
    raised,     \* TRUE when an exception left fetch_article
    caught,     \* TRUE when an except clause absorbed an exception
    requests,   \* session.get calls made so far, in order
    \* ---- one _search_alternative_sources loop, link by link
    s_pc, s_page, s_i, urls,
    \* ---- one _get_domain call
    d_pc, d_url, d_out,
    \* ---- the search query built from a title (lines 129-133)
    q_pc, q_title, q_out,
    \* ---- one _scrape_url call, statement by statement
    x_pc,
    x_url,      \* the argument
    x_resp,     \* what session.get meets, with the page the parser builds
    x_soup,     \* soup: the parsed tree, nodes in document order
    x_content,  \* content: position of the container in soup, 0 for soup itself
    x_text,     \* text
    x_out,      \* the returned value
    \* ---- two fetch_article calls with the same arguments, side by side
    w_url, w_title,
    w_a, w_b,   \* each call: pc, alt_urls, idx, result, raised, requests
    \* ---- a NewsTerminalUI object (ui.py)
    ui_articles,        \* self.articles
    selected_index,     \* self.selected_index
    ui_category,        \* self.current_category
    ui_selected,        \* what the last get_selected_article call returned
    \* ---- a NewsTerminalApp object (main.py)
    app_pc,             \* "new" before on_mount, then "running" or "exited"
    app_articles,       \* self.articles
    app_category,       \* self.current_category
    current_article,    \* self.current_article
    showing_detail,     \* self.showing_detail
    list_items,         \* the NewsItems of #articles-list
    list_display,       \* #news-list .display
    detail_display,     \* #article-detail .display
    detail,             \* the ArticleDetail mounted in #article-detail
    app_last,           \* the handler that ran last, and whether it ran load_news
    \* ---- the configuration file (config.py)
    config_file,        \* CONFIG_FILE on disk: None when it does not exist
    cfg_saved,          \* the key of the last save_api_key that returned, None after clear_api_key
    cfg_last            \* the last call: its name, argument or entry, and outcome

fetchVars  == <<url, title, pc, alt_urls, idx, result, raised, caught, requests>>
searchVars == <<s_pc, s_page, s_i, urls>>
domainVars == <<d_pc, d_url, d_out>>
queryVars  == <<q_pc, q_title, q_out>>
pageVars   == <<x_pc, x_url, x_resp, x_soup, x_content, x_text, x_out>>
twinVars   == <<w_url, w_title, w_a, w_b>>
uiVars     == <<ui_articles, selected_index, ui_category, ui_selected>>
appVars    == <<app_pc, app_articles, app_category, current_article, showing_detail,
                list_items, list_display, detail_display, detail, app_last>>
configVars == <<config_file, cfg_saved, cfg_last>>
vars == <<url, title, pc, alt_urls, idx, result, raised, caught, requests,
          s_pc, s_page, s_i, urls, d_pc, d_url, d_out, q_pc, q_title, q_out,
          x_pc, x_url, x_resp, x_soup, x_content, x_text, x_out,
          w_url, w_title, w_a, w_b,
          ui_articles, selected_index, ui_category, ui_selected,
          app_pc, app_articles, app_category, current_article, showing_detail,
          list_items, list_display, detail_display, detail, app_last,
          config_file, cfg_saved, cfg_last>>

\* an action of one part leaves the variables of the other parts alone
Frame(part) ==
    /\ IF part = "fetch"  THEN TRUE ELSE UNCHANGED fetchVars
    /\ IF part = "search" THEN TRUE ELSE UNCHANGED searchVars
    /\ IF part = "domain" THEN TRUE ELSE UNCHANGED domainVars
    /\ IF part = "query"  THEN TRUE ELSE UNCHANGED queryVars
    /\ IF part = "page"   THEN TRUE ELSE UNCHANGED pageVars
    /\ IF part = "twin"   THEN TRUE ELSE UNCHANGED twinVars
    /\ IF part = "ui"     THEN TRUE ELSE UNCHANGED uiVars
    /\ IF part = "app"    THEN TRUE ELSE UNCHANGED appVars
    /\ IF part = "config" THEN TRUE ELSE UNCHANGED configVars

\* Python values that may be None are records: None, or Str(s) for a string s.
None     == [t |-> "None"]
Str(s)   == [t |-> "str", v |-> s]
NoResult == <<[t |-> "no value yet"], "">>

(***************************************************************************)
(* Python string primitives used by the scraper.                           *)
(***************************************************************************)
Char(s, i) == SubSeq(s, i, i)

\* s[i:] (1-based i)
From(s, i) == SubSeq(s, i, Len(s))

\* s.startswith(p)
StartsWith(s, p) == Len(s) >= Len(p) /\ SubSeq(s, 1, Len(p)) = p

\* s.find(p, i): lowest position >= i where p occurs in s, 0 when absent
RECURSIVE Find(_, _, _)
Find(s, p, i) ==
    IF i + Len(p) - 1 > Len(s) THEN 0
    ELSE IF SubSeq(s, i, i + Len(p) - 1) = p THEN i
    ELSE Find(s, p, i + 1)

\* p in s
Contains(s, p) == Find(s, p, 1) # 0

\* s.replace(old, new): every non-overlapping occurrence, left to right
RECURSIVE Replace(_, _, _)
Replace(s, old, new) ==
    LET k == Find(s, old, 1) IN
    IF k = 0 THEN s
    ELSE SubSeq(s, 1, k - 1) \o new \o Replace(From(s, k + Len(old)), old, new)

UpperAZ == "ABCDEFGHIJKLMNOPQRSTUVWXYZ"
LowerAZ == "abcdefghijklmnopqrstuvwxyz"

LowerChar(c) ==
    LET k == Find(UpperAZ, c, 1) IN IF k = 0 THEN c ELSE Char(LowerAZ, k)

\* s.lower()
RECURSIVE Lower(_)
Lower(s) == IF s = "" THEN "" ELSE LowerChar(Char(s, 1)) \o Lower(From(s, 2))

SchemeChars == "abcdefghijklmnopqrstuvwxyzABCDEFGHIJKLMNOPQRSTUVWXYZ0123456789+-."

RECURSIVE AllIn(_, _)
AllIn(s, alphabet) ==
    s = "" \/ (Contains(alphabet, Char(s, 1)) /\ AllIn(From(s, 2), alphabet))

\* first position >= i of s holding one of the characters of delims, else Len(s)+1
RECURSIVE FindAny(_, _, _)
FindAny(s, delims, i) ==
    IF i > Len(s) THEN Len(s) + 1
    ELSE IF Contains(delims, Char(s, i)) THEN i
    ELSE FindAny(s, delims, i + 1)

(***************************************************************************)
(* urllib.parse.urlparse(url): the part of it _get_domain reads.           *)
(***************************************************************************)
\* url with its "scheme:" removed, when it has one
AfterScheme(u) ==
    LET c == Find(u, ":", 1) IN
    IF c > 1 /\ Contains(LowerAZ \o UpperAZ, Char(u, 1))
             /\ AllIn(SubSeq(u, 1, c - 1), SchemeChars)
    THEN From(u, c + 1) ELSE u

\* urlparse(url).netloc: what follows "//" up to the first "/", "?" or "#"
Netloc(u) ==
    LET r == AfterScheme(u) IN
    IF StartsWith(r, "//")
    THEN SubSeq(r, 3, FindAny(r, "/?#", 3) - 1)
    ELSE ""

\* urlparse raises ValueError("Invalid IPv6 URL") on an unbalanced bracket
UrlparseRaises(u) ==
    LET n == Netloc(u) IN Contains(n, "[") # Contains(n, "]")

\* _get_domain(url)
get_domain(u) ==
    IF UrlparseRaises(u) THEN "unknown" ELSE Replace(Netloc(u), "www.", "")

(***************************************************************************)
(* urllib.parse.unquote(s): every %XX escape becomes the character with    *)
(* that code; a "%" not followed by two hex digits is kept as it is.       *)
(* Codes outside printable ASCII (0x20..0x7E), and 0x60, which a TLA+      *)
(* string cannot hold, do not occur in the inputs of this model and        *)
(* decode to the marker NonAscii.                                          *)
(***************************************************************************)
HexDigits == "0123456789abcdef"
Printable ==
    " !\"#$%&'()*+,-./0123456789:;<=>?@ABCDEFGHIJKLMNOPQRSTUVWXYZ[\\]^_ abcdefghijklmnopqrstuvwxyz{|}~"
NonAscii == "<U+FFFD>"

HexVal(c) == Find(HexDigits, LowerChar(c), 1) - 1

IsHex(c) == Len(c) = 1 /\ HexVal(c) >= 0

Chr(code) ==
    IF code >= 32 /\ code <= 126 /\ code # 96 THEN Char(Printable, code - 31) ELSE NonAscii

RECURSIVE Unquote(_)
Unquote(s) ==
    IF s = "" THEN ""
    ELSE IF Char(s, 1) = "%" /\ Len(s) >= 3 /\ IsHex(Char(s, 2)) /\ IsHex(Char(s, 3))
         THEN Chr(16 * HexVal(Char(s, 2)) + HexVal(Char(s, 3))) \o Unquote(From(s, 4))
         ELSE Char(s, 1) \o Unquote(From(s, 2))

(***************************************************************************)
(* The search URL built from a title, lines 129-133:                       *)
(* re.sub(r'[^\w\s]', '', title)[:100], then quote(f"{search_query} news").*)
(* \w is a letter, a digit or the underscore; \s is white space.           *)
(***************************************************************************)
MaxQueryTitle == 100

Digits == "0123456789"
SpaceChars == " \t\n\r\f"

\* re.sub(r'[^\w\s]', '', s)
\* (character by character; the string is halved to keep the recursion shallow)
RECURSIVE StripNonWord(_)
StripNonWord(s) ==
    IF s = "" THEN ""
    ELSE IF Len(s) = 1
    THEN (IF Contains(LowerAZ \o UpperAZ \o Digits \o "_" \o SpaceChars, s) THEN s ELSE "")
    ELSE StripNonWord(SubSeq(s, 1, Len(s) \div 2))
         \o StripNonWord(From(s, Len(s) \div 2 + 1))

\* s[:n]
Prefix(s, n) == SubSeq(s, 1, IF Len(s) < n THEN Len(s) ELSE n)

\* ord(c) of the characters a title holds here
Ord(c) ==
    CASE c = "\t" -> 9 [] c = "\n" -> 10 [] c = "\f" -> 12 [] c = "\r" -> 13
      [] OTHER -> Find(Printable, c, 1) + 31

\* urllib.parse.quote(s): letters, digits and "_.-~/" stay, the rest is %XX
RECURSIVE Quote(_)
Quote(s) ==
    IF s = "" THEN ""
    ELSE IF Len(s) = 1
    THEN (IF Contains(LowerAZ \o UpperAZ \o Digits \o "_.-~/", s) THEN s
          ELSE "%" \o Char("0123456789ABCDEF", (Ord(s) \div 16) + 1)
                   \o Char("0123456789ABCDEF", (Ord(s) % 16) + 1))
    ELSE Quote(SubSeq(s, 1, Len(s) \div 2)) \o Quote(From(s, Len(s) \div 2 + 1))

SearchEndpoint == "https://html.duckduckgo.com/html/?q="

\* line 129
search_query(t) == Prefix(StripNonWord(t), MaxQueryTitle)

\* lines 130-133
search_url(t) == SearchEndpoint \o Quote(search_query(t) \o " news")

(***************************************************************************)
(* re.search(r'uddg=([^&]+)', href): the leftmost "uddg=" that is followed *)
(* by at least one character other than "&"; group 1 runs to the next "&". *)
(* NoMatch stands for the None that re.search returns.                     *)
(***************************************************************************)
NoMatch == [found |-> FALSE]
Match(g) == [found |-> TRUE, group |-> g]

RECURSIVE UddgSearch(_, _)
UddgSearch(href, i) ==
    LET k == Find(href, "uddg=", i) IN
    IF k = 0 THEN NoMatch
    ELSE LET e == FindAny(href, "&", k + 5) IN
         IF e = k + 5 THEN UddgSearch(href, k + 1)
         ELSE Match(SubSeq(href, k + 5, e - 1))

(***************************************************************************)
(* _is_news_url(url)                                                       *)
(***************************************************************************)
skip_patterns ==
    {"youtube.com", "twitter.com", "facebook.com", "instagram.com",
     "reddit.com", "wikipedia.org", "amazon.com", "ebay.com",
     "/search", "/category", "/tag/", "/author/"}

is_news_url_case_sensitive(u) == ~ \E p \in skip_patterns : Contains(u, p)

is_news_url(u) == ~ \E p \in skip_patterns : Contains(Lower(u), p)

(***************************************************************************)
(* One pass of the loop body of _search_alternative_sources over a link:   *)
(* what the link adds to urls (nothing, or one URL).                       *)
(***************************************************************************)
\* link.get('href', ''): a link without the attribute gives ''
Href(link) == IF link.href = None THEN "" ELSE link.href.v

Contribution_wrapper_fallback(href) ==
    LET m == IF Contains(href, "uddg=") THEN UddgSearch(href, 1) ELSE NoMatch IN
    IF m.found
    THEN LET actual_url == Unquote(m.group) IN
         IF is_news_url(actual_url) THEN <<actual_url>> ELSE <<>>
    ELSE IF StartsWith(href, "http") /\ is_news_url(href) THEN <<href>>
    ELSE <<>>

Contribution(href) ==
    IF Contains(href, "uddg=")
    THEN LET m == UddgSearch(href, 1) IN
         IF m.found
         THEN LET actual_url == Unquote(m.group) IN
              IF is_news_url(actual_url) THEN <<actual_url>> ELSE <<>>
         ELSE <<>>
    ELSE IF StartsWith(href, "http")
         THEN IF is_news_url(href) THEN <<href>> ELSE <<>>
         ELSE <<>>

(***************************************************************************)
(* A specification exercises one part; the variables of the others stay    *)
(* idle.                                                                   *)
(***************************************************************************)
Idle(part) ==
    /\ part = "fetch" \/
          /\ url = None /\ title = None /\ pc = "idle" /\ alt_urls = <<>>
          /\ idx = 0 /\ result = NoResult /\ raised = FALSE /\ caught = FALSE
          /\ requests = <<>>
    /\ part = "search" \/ (s_pc = "idle" /\ s_page = <<>> /\ s_i = 0 /\ urls = <<>>)
    /\ part = "domain" \/ (d_pc = "idle" /\ d_url = "" /\ d_out = "")
    /\ part = "query"  \/ (q_pc = "idle" /\ q_title = "" /\ q_out = "")
    /\ part = "page" \/
          /\ x_pc = "idle" /\ x_url = None /\ x_resp = None /\ x_soup = <<>>
          /\ x_content = 0 /\ x_text = "" /\ x_out = None
    /\ part = "twin" \/ (w_url = None /\ w_title = None /\ w_a = None /\ w_b = None)
    /\ part = "ui" \/
          /\ ui_articles = <<>> /\ selected_index = 0 /\ ui_category = "1"
          /\ ui_selected = None
    /\ part = "app" \/
          /\ app_pc = "new" /\ app_articles = <<>> /\ app_category = "1"
          /\ current_article = None /\ showing_detail = FALSE /\ list_items = <<>>
          /\ list_display = TRUE /\ detail_display = TRUE /\ detail = None
          /\ app_last = [op |-> "init", loaded |-> FALSE]
    /\ part = "config" \/
          (config_file = None /\ cfg_saved = None /\ cfg_last = [op |-> "init"])

(***************************************************************************)
(* _get_domain applied to candidate URLs: scheme, a few host labels in     *)
(* front of a registered domain, and a path.                               *)
(***************************************************************************)
MaxLabels == 3

HostLabels == {"www.", "awww.", "news."}
BaseDomains == {"example.com", "bbc.co.uk"}
UrlPaths == {"", "/world/story-1?ref=www.feed"}

RECURSIVE Join(_)
Join(labels) == IF labels = <<>> THEN "" ELSE Head(labels) \o Join(Tail(labels))

LabelSeqs == UNION {[1..n -> HostLabels] : n \in 0..MaxLabels}

InitDomain ==
    /\ Idle("domain")
    /\ d_pc = "call"
    /\ d_url \in {"https://" \o Join(ls) \o b \o p :
                      ls \in LabelSeqs, b \in BaseDomains, p \in UrlPaths}
    /\ d_out = ""

GetDomain ==
    /\ d_pc = "call"
    /\ d_out' = get_domain(d_url)
    /\ d_pc' = "done"
    /\ UNCHANGED <<d_url>> /\ Frame("domain")

NextDomain == GetDomain

SpecDomain == InitDomain /\ [][NextDomain]_vars

\* The reading of C7: only a leading "www." is removed from the host.
StripLeadingWww(h) == IF StartsWith(h, "www.") THEN From(h, 5) ELSE h

\* C7: _get_domain(url) is the host of url with only a leading "www." removed;
\* a host that does not start with "www." is returned unchanged and no other
\* occurrence of "www." inside the host is altered.
C7_LeadingWwwOnly ==
    d_pc = "done" => d_out = StripLeadingWww(Netloc(d_url))

(***************************************************************************)
(* The search URL built for titles made of a few pieces: words, separators *)
(* and punctuation, one piece long enough for two of them to pass 100      *)
(* characters.                                                             *)
(***************************************************************************)
MaxPieces == 3

TitlePieces ==
    {"Budget vote: what's next?",
     " - ",
     "snake_case_name",
     "100% (really!) 2024",
     "Parliament approves the long-awaited infrastructure bill, 312-118; "}

InitQuery ==
    /\ Idle("query")
    /\ q_pc = "call"
    /\ q_title \in {Join(ps) : ps \in UNION {[1..n -> TitlePieces] : n \in 0..MaxPieces}}
    /\ q_out = ""

BuildQuery ==
    /\ q_pc = "call"
    /\ q_out' = search_url(q_title)
    /\ q_pc' = "done"
    /\ UNCHANGED <<q_title>> /\ Frame("query")

SpecQuery == InitQuery /\ [][BuildQuery]_vars

\* The reading of C11: only letters, digits and white space of the title stay.
RECURSIVE AlnumAndSpace(_)
AlnumAndSpace(s) ==
    IF s = "" THEN ""
    ELSE IF Len(s) = 1
    THEN (IF Contains(LowerAZ \o UpperAZ \o Digits \o SpaceChars, s) THEN s ELSE "")
    ELSE AlnumAndSpace(SubSeq(s, 1, Len(s) \div 2))
         \o AlnumAndSpace(From(s, Len(s) \div 2 + 1))

\* C11: the query is the title with everything but letters, digits and white
\* space removed (the underscore too), cut to at most 100 characters, with
\* " news" appended, and then URL-encoded.
C11_QueryAlnumAndSpaceOnly ==
    q_pc = "done" =>
        q_out = SearchEndpoint
                  \o Quote(Prefix(AlnumAndSpace(q_title), 100) \o " news")

(***************************************************************************)
(* _search_alternative_sources, link by link.  Links are the result-link   *)
(* elements (a.result__a) a result page can hold: href is the attribute    *)
(* value the parser hands over (None when the element has no href), dest   *)
(* the destination the search engine encoded in it ("" when it has none).  *)
(***************************************************************************)
Links == <<
    [href |-> Str("//duckduckgo.com/l/?uddg=https%3A%2F%2Fwww.example.com%2Fworld%2Fstory%2D1&rut=ab12"),
     dest |-> "https://www.example.com/world/story-1"],
    [href |-> Str("https://duckduckgo.com/l/?uddg=https%3A%2F%2Fnews.example.org%2Fa%3Fid%3D7%26p%3D2&rut=cd34"),
     dest |-> "https://news.example.org/a?id=7&p=2"],
    [href |-> Str("https://duckduckgo.com/l/?uddg=https%3A%2F%2Fwww.youtube.com%2Fwatch%3Fv%3Dabc&rut=ef56"),
     dest |-> "https://www.youtube.com/watch?v=abc"],
    [href |-> Str("https://duckduckgo.com/l/?uddg=https%3A%2F%2FEN.Wikipedia.ORG%2Fwiki%2FBudget"),
     dest |-> "https://EN.Wikipedia.ORG/wiki/Budget"],
    [href |-> Str("//duckduckgo.com/l/?uddg=https%3A%2F%2Fexample.com%2FTag%2Fbudget&rut=ab78"),
     dest |-> "https://example.com/Tag/budget"],
    [href |-> Str("https://duckduckgo.com/l/?uddg=https%3A%2F%2Freddit%2Ecom%2Fr%2Fnews&rut=cd90"),
     dest |-> "https://reddit.com/r/news"],
    [href |-> Str("https://duckduckgo.com/l/?uddg=&rut=ef12"),
     dest |-> ""],
    [href |-> Str("https://apnews.com/article/budget-vote"),
     dest |-> "https://apnews.com/article/budget-vote"],
    [href |-> Str("https://Twitter.com/user/status/1"),
     dest |-> "https://Twitter.com/user/status/1"],
    [href |-> Str("http://example.net/search?q=budget"),
     dest |-> "http://example.net/search?q=budget"],
    [href |-> Str("/l/?kh=-1&q=budget"),
     dest |-> ""],
    [href |-> None,
     dest |-> ""]
>>

MaxAlternatives == 5

MaxShort == 2
MaxLinks == 7

LinkIds == 1..Len(Links)
\* link kinds of the long pages: redirect-wrapped, direct, and a rejected one
LongIds == {1, 8, 9}

Pages ==
    UNION {[1..n -> LinkIds] : n \in 0..MaxShort}
    \cup UNION {[1..n -> LongIds] : n \in 0..MaxLinks}

\* what each link adds to urls, computed once per link
LinkOut == [k \in LinkIds |-> Contribution(Href(Links[k]))]

CapReached_off_by_one(u) == Len(u) > MaxAlternatives

\* len(urls) >= 5
CapReached(u) == Len(u) >= MaxAlternatives

\* outcomes of session.get(search_url) .. BeautifulSoup(response.text): every
\* one but "ok" is an exception raised inside the try block
SearchOutcomes == {"ok", "timeout", "connection_error", "http_error", "parse_error"}

InitSearch ==
    /\ Idle("search")
    /\ s_pc = "get"
    /\ s_page \in Pages
    /\ s_i = 0
    /\ urls = <<>>

\* lines 135-141: the request, the parse, urls = []
SearchGet ==
    /\ s_pc = "get"
    /\ \E o \in SearchOutcomes :
          s_pc' = IF o = "ok" THEN "loop" ELSE "failed"
    /\ s_i' = 1
    /\ urls' = <<>>
    /\ UNCHANGED <<s_page>> /\ Frame("search")

\* lines 142-156: one link, then the cap check and its break
SearchLink ==
    /\ s_pc = "loop"
    /\ s_i <= Len(s_page)
    /\ urls' = urls \o LinkOut[s_page[s_i]]
    /\ IF CapReached(urls')
       THEN s_pc' = "done" /\ s_i' = s_i
       ELSE s_pc' = "loop" /\ s_i' = s_i + 1
    /\ UNCHANGED <<s_page>> /\ Frame("search")

\* line 158: the links are exhausted, return urls
SearchReturn ==
    /\ s_pc = "loop"
    /\ s_i > Len(s_page)
    /\ s_pc' = "done"
    /\ UNCHANGED <<s_page, s_i, urls>> /\ Frame("search")

NextSearch == SearchGet \/ SearchLink \/ SearchReturn

SpecSearch == InitSearch /\ [][NextSearch]_vars

(***************************************************************************)
(* _scrape_url(url).  A response is what session.get meets on the network: *)
(* an exception of requests, or a response with a status, the parser that  *)
(* accepts its markup ("error": both raise) and the length of the text     *)
(* _extract_text draws from it.  The text scraped from url u is            *)
(* Text(u, n), n its length.                                               *)
(***************************************************************************)
MinContentLength == 100

Text(u, n) == [t |-> "text", from |-> u, len |-> n]
Raised == [t |-> "raised"]

Statuses == {200, 304, 404, 500}
TextLengths == {0, 60, 99, 100, 2500}

Responses ==
    {[kind |-> k] : k \in {"timeout", "connection_error", "invalid_url"}}
    \cup [kind : {"response"}, status : Statuses,
          parser : {"lxml", "html.parser", "error"}, len : TextLengths]

\* bool(v) for None, a string or a scraped text
Truthy(v) ==
    CASE v.t = "None" -> FALSE
      [] v.t = "str"  -> v.v # ""
      [] v.t = "text" -> v.len > 0
      [] v.t = "int"  -> v.v # 0
      [] OTHER        -> FALSE

\* response.raise_for_status()
RaisesForStatus(status) == status >= 400 /\ status < 600

TooShort_off_by_one(n) == n < MinContentLength - 1

\* len(text) < 100
TooShort(n) == n < MinContentLength

\* lines 87-117, the body of the try block: exc when an exception leaves it
ScrapeBody(u, r) ==
    IF r.kind # "response" THEN [exc |-> TRUE]
    ELSE IF RaisesForStatus(r.status) THEN [exc |-> TRUE]
    ELSE IF r.parser = "error" THEN [exc |-> TRUE]
    ELSE IF TooShort(r.len) THEN [exc |-> FALSE, val |-> None]
    ELSE [exc |-> FALSE, val |-> Text(u, r.len)]

scrape_url_no_except(u, r) ==
    IF ~ Truthy(u) THEN None
    ELSE LET b == ScrapeBody(u.v, r) IN IF b.exc THEN Raised ELSE b.val

\* _scrape_url(url): None, or the text; except Exception gives None
scrape_url(u, r) ==
    IF ~ Truthy(u) THEN None
    ELSE LET b == ScrapeBody(u.v, r) IN IF b.exc THEN None ELSE b.val

\* whether the call reaches session.get, and whether its except clause runs
ScrapeRequests(u) == Truthy(u)
ScrapeCatches(u, r) == Truthy(u) /\ ScrapeBody(u.v, r).exc

(***************************************************************************)
(* _search_alternative_sources(title) as fetch_article calls it: the whole *)
(* function.  sr is what the search request meets: an outcome and the      *)
(* result page.                                                            *)
(***************************************************************************)
\* lines 142-158: the loop from link i on; an exception raised while link
\* fail_at is handled leaves the try block with what was collected so far lost
RECURSIVE Collect(_, _, _, _)
Collect(page, i, acc, fail_at) ==
    IF i > Len(page) THEN [exc |-> FALSE, val |-> acc]
    ELSE IF i = fail_at THEN [exc |-> TRUE, val |-> acc]
    ELSE LET a == acc \o LinkOut[page[i]] IN
         IF CapReached(a) THEN [exc |-> FALSE, val |-> a]
         ELSE Collect(page, i + 1, a, fail_at)

\* what a search meets: the outcome of the request and of the parse, the result
\* page, and the link at which the loop body raises (0: at none)
SearchResponses ==
    {sr \in [outcome : SearchOutcomes, page : Pages, fail_at : 0..MaxLinks] :
        /\ sr.fail_at <= Len(sr.page)
        /\ sr.outcome # "ok" => sr.fail_at = 0}

\* re.sub on a title that is no string raises TypeError before the request
SearchRequests(t) == t.t = "str"

\* lines 128-158, the body of the try block: exc when an exception leaves it,
\* val the list urls as it stood then
SearchBody(t, sr) ==
    IF ~ SearchRequests(t) THEN [exc |-> TRUE, val |-> <<>>]
    ELSE IF sr.outcome # "ok" THEN [exc |-> TRUE, val |-> <<>>]
    ELSE Collect(sr.page, 1, <<>>, sr.fail_at)

search_alternative_sources_keeps_partial(t, sr) == SearchBody(t, sr).val

\* _search_alternative_sources(title): urls, or [] from except Exception
search_alternative_sources(t, sr) ==
    LET b == SearchBody(t, sr) IN IF b.exc THEN <<>> ELSE b.val

SearchCatches(t, sr) == SearchBody(t, sr).exc

\* where the search failed, for the log: "" when it did not
SearchFailure(t, sr) ==
    IF ~ SearchRequests(t) THEN "bad_title"
    ELSE IF sr.outcome # "ok" THEN sr.outcome
    ELSE IF SearchBody(t, sr).exc THEN "link_error"
    ELSE ""

(***************************************************************************)
(* fetch_article(url, title)                                               *)
(***************************************************************************)
FetchUrls ==
    {None, Str(""), Str("not a url"), Str(Links[1].dest), Str(Links[8].dest),
     Str("https://www.example.com/paywalled")}
\* a title can be any value the feed carried: None, a string, a number
FetchTitles ==
    {None, Str(""), Str("Budget vote: what's next?"), [t |-> "int", v |-> 42]}

\* every way a search for title t can go, computed once per title: the list it
\* returns, whether its except clause ran, whether the request was sent, where
\* it failed and how many urls it held then
SearchRuns ==
    [t \in FetchTitles |->
        {[urls      |-> search_alternative_sources(t, sr),
          caught    |-> SearchCatches(t, sr),
          sent      |-> SearchRequests(t),
          failure   |-> SearchFailure(t, sr),
          collected |-> Len(SearchBody(t, sr).val)] : sr \in SearchResponses}]

\* the address the search for title t asks, computed once per title
SearchTarget ==
    [t \in FetchTitles |-> IF SearchRequests(t) THEN search_url(t.v) ELSE ""]

\* the log of the calls to _scrape_url that reach session.get and of the calls
\* to _search_alternative_sources (sent tells whether a request left)
ScrapeEntry(c, u, content) ==
    [kind |-> "scrape", cand |-> c, target |-> u, yielded |-> Truthy(content),
     sent |-> TRUE, failure |-> "", collected |-> 0]
SearchEntry(t, run) ==
    [kind |-> "search", cand |-> 0, target |-> SearchTarget[t], yielded |-> FALSE,
     sent |-> run.sent, failure |-> run.failure, collected |-> run.collected]

HasTitle_always(t) == TRUE

\* line 71: if title
HasTitle(t) == Truthy(t)

SameUrl_never(alt, u) == FALSE

\* line 74: alt_url != url is false
SameUrl(alt, u) == Str(alt) = u

AlternativeLabel_first(alts, i) == "alternative: " \o get_domain(alts[1])

\* line 77: f"alternative: {self._get_domain(alt_url)}"
AlternativeLabel(alts, i) == "alternative: " \o get_domain(alts[i])

NextCandidate_skips(i) == i + 2

\* line 73: for alt_url in alt_urls moves to the next element
NextCandidate(i) == i + 1

Init ==
    /\ Idle("fetch")
    /\ url \in FetchUrls
    /\ title \in FetchTitles
    /\ pc = "call"
    /\ alt_urls = <<>> /\ idx = 0
    /\ result = NoResult /\ raised = FALSE /\ caught = FALSE
    /\ requests = <<>>

\* an exception raised by a callee leaves fetch_article: nothing catches it there
Propagate ==
    /\ raised' = TRUE /\ pc' = "done" /\ result' = NoResult
    /\ UNCHANGED <<alt_urls, idx>>

\* lines 66-71: the primary scrape and what follows from it
FetchPrimary ==
    /\ pc = "call"
    /\ \E r \in Responses :
          LET content == scrape_url(url, r) IN
          /\ requests' = IF ScrapeRequests(url)
                         THEN Append(requests, ScrapeEntry(0, url.v, content))
                         ELSE requests
          /\ caught' = (caught \/ ScrapeCatches(url, r))
          /\ IF content = Raised THEN Propagate
             ELSE /\ raised' = raised
                  /\ UNCHANGED <<alt_urls, idx>>
                  /\ IF Truthy(content)
                     THEN pc' = "done" /\ result' = <<content, "original">>
                     ELSE IF HasTitle(title)
                     THEN pc' = "search" /\ result' = result
                     ELSE pc' = "done" /\ result' = <<None, "failed">>
    /\ UNCHANGED <<url, title>> /\ Frame("fetch")

\* line 72: alt_urls = self._search_alternative_sources(title)
FetchSearch ==
    /\ pc = "search"
    /\ \E run \in SearchRuns[title] :
          /\ alt_urls' = run.urls
          /\ caught' = (caught \/ run.caught)
          /\ requests' = Append(requests, SearchEntry(title, run))
    /\ pc' = "loop"
    /\ idx' = 1
    /\ UNCHANGED <<url, title, result, raised>> /\ Frame("fetch")

\* lines 73-74: a candidate equal to url is passed over
LoopSkip ==
    /\ pc = "loop"
    /\ idx <= Len(alt_urls)
    /\ SameUrl(alt_urls[idx], url)
    /\ idx' = NextCandidate(idx)
    /\ UNCHANGED <<url, title, pc, alt_urls, result, raised, caught, requests>> /\ Frame("fetch")

\* lines 73-77: the next candidate is scraped; its text ends the call
LoopScrape ==
    /\ pc = "loop"
    /\ idx <= Len(alt_urls)
    /\ ~ SameUrl(alt_urls[idx], url)
    /\ \E r \in Responses :
          LET alt_url == Str(alt_urls[idx])
              content == scrape_url(alt_url, r) IN
          /\ requests' = IF ScrapeRequests(alt_url)
                         THEN Append(requests, ScrapeEntry(idx, alt_url.v, content))
                         ELSE requests
          /\ caught' = (caught \/ ScrapeCatches(alt_url, r))
          /\ IF content = Raised THEN Propagate
             ELSE /\ raised' = raised
                  /\ alt_urls' = alt_urls
                  /\ IF Truthy(content)
                     THEN /\ pc' = "done"
                          /\ result' = <<content, AlternativeLabel(alt_urls, idx)>>
                          /\ idx' = idx
                     ELSE /\ pc' = "loop"
                          /\ result' = result
                          /\ idx' = NextCandidate(idx)
    /\ UNCHANGED <<url, title>> /\ Frame("fetch")

\* line 79: the candidates are exhausted
LoopEnd ==
    /\ pc = "loop"
    /\ idx > Len(alt_urls)
    /\ pc' = "done"
    /\ result' = <<None, "failed">>
    /\ UNCHANGED <<url, title, alt_urls, idx, raised, caught, requests>> /\ Frame("fetch")

Next == FetchPrimary \/ FetchSearch \/ LoopSkip \/ LoopScrape \/ LoopEnd

Spec == Init /\ [][Next]_vars

\* every statement of the call returns (a request ends by its timeout at the
\* latest), so a call that can take a step takes one
SpecFair == Spec /\ WF_vars(Next)

(***************************************************************************)
(* Two calls fetch_article(url, title) with the same arguments, run side   *)
(* by side: their primary requests meet different responses, every later   *)
(* request of the two meets the same one.                                  *)
(***************************************************************************)
\* one step of fetch_article from the position st, when the request it makes
\* (if it makes one) meets response r, and its search goes the way run
FetchStep(st, u, t, r, run) ==
    LET Scraped(c, target) ==
            IF ScrapeRequests(target)
            THEN Append(st.requests, ScrapeEntry(c, target.v, scrape_url(target, r)))
            ELSE st.requests
    IN
    CASE st.pc = "call" ->
           LET content == scrape_url(u, r) IN
           IF content = Raised
           THEN [st EXCEPT !.pc = "done", !.raised = TRUE, !.requests = Scraped(0, u)]
           ELSE IF Truthy(content)
           THEN [st EXCEPT !.pc = "done", !.result = <<content, "original">>,
                           !.requests = Scraped(0, u)]
           ELSE IF HasTitle(t)
           THEN [st EXCEPT !.pc = "search", !.requests = Scraped(0, u)]
           ELSE [st EXCEPT !.pc = "done", !.result = <<None, "failed">>,
                           !.requests = Scraped(0, u)]
      [] st.pc = "search" ->
           [st EXCEPT !.pc = "loop", !.idx = 1, !.alt_urls = run.urls,
                      !.requests = Append(@, SearchEntry(t, run))]
      [] st.pc = "loop" ->
           IF st.idx > Len(st.alt_urls)
           THEN [st EXCEPT !.pc = "done", !.result = <<None, "failed">>]
           ELSE IF SameUrl(st.alt_urls[st.idx], u)
           THEN [st EXCEPT !.idx = NextCandidate(@)]
           ELSE LET alt_url == Str(st.alt_urls[st.idx])
                    content == scrape_url(alt_url, r) IN
                IF content = Raised
                THEN [st EXCEPT !.pc = "done", !.raised = TRUE,
                                !.requests = Scraped(st.idx, alt_url)]
                ELSE IF Truthy(content)
                THEN [st EXCEPT !.pc = "done",
                                !.result = <<content, AlternativeLabel(st.alt_urls, st.idx)>>,
                                !.requests = Scraped(st.idx, alt_url)]
                ELSE [st EXCEPT !.idx = NextCandidate(@),
                                !.requests = Scraped(st.idx, alt_url)]
      [] OTHER -> st

InitTwin ==
    /\ Idle("twin")
    /\ w_url \in {u \in FetchUrls : Truthy(u)}
    /\ w_title \in FetchTitles
    /\ w_a = [pc |-> "call", alt_urls |-> <<>>, idx |-> 0, result |-> NoResult,
              raised |-> FALSE, requests |-> <<>>]
    /\ w_b = w_a

\* the primary requests: the first call gets a 200 page with under 100
\* characters of text, the second a network failure or a page that does not parse
TwinPrimary ==
    /\ w_a.pc = "call" /\ w_b.pc = "call"
    /\ \E ra \in {r \in Responses : /\ r.kind = "response" /\ r.status = 200
                                    /\ r.parser # "error" /\ r.len < 100},
          rb \in {r \in Responses : r.kind # "response" \/ r.parser = "error"},
          run \in {CHOOSE x \in SearchRuns[w_title] : TRUE} :
          /\ w_a' = FetchStep(w_a, w_url, w_title, ra, run)
          /\ w_b' = FetchStep(w_b, w_url, w_title, rb, run)
    /\ UNCHANGED <<w_url, w_title>> /\ Frame("twin")

\* every later step: the search of both calls goes the same way, the candidate
\* requests of both meet the same response
TwinStep ==
    /\ w_a.pc # "call"
    /\ w_a.pc # "done" \/ w_b.pc # "done"
    /\ LET searching == "search" \in {w_a.pc, w_b.pc} IN
       \E r \in IF searching THEN {CHOOSE x \in Responses : TRUE} ELSE Responses,
          run \in IF searching THEN SearchRuns[w_title]
                  ELSE {CHOOSE x \in SearchRuns[w_title] : TRUE} :
          /\ w_a' = FetchStep(w_a, w_url, w_title, r, run)
          /\ w_b' = FetchStep(w_b, w_url, w_title, r, run)
    /\ UNCHANGED <<w_url, w_title>> /\ Frame("twin")

NextTwin == TwinPrimary \/ TwinStep

SpecTwin == InitTwin /\ [][NextTwin]_vars

\* C16: a primary url answered by a 200 page with under 100 characters of text
\* and one that fails at the network layer or fails to parse lead fetch_article,
\* for the same title and the same search and candidate responses, through the
\* same searches and candidate fetches to the same result.
C16_FailureCausesIndistinguishable ==
    w_a.pc # "call" =>
        /\ w_a.pc = w_b.pc
        /\ w_a.alt_urls = w_b.alt_urls /\ w_a.idx = w_b.idx
        /\ w_a.requests = w_b.requests
        /\ w_a.result = w_b.result /\ w_a.raised = w_b.raised
        /\ ~ w_a.raised

\* both calls searched, fetched a candidate in vain and returned the text of a
\* later one
C16_Witness ==
    /\ w_a.pc = "done" /\ w_b.pc = "done"
    /\ Len(w_a.requests) >= 4
    /\ StartsWith(w_a.result[2], "alternative: ")

(***************************************************************************)
(* _scrape_url(url), statement by statement, on a parsed page.  A page is  *)
(* the tree the parser builds, written as its nodes in document order:     *)
(* d is the depth of a node, tag its name ("#text" for a text node), class *)
(* and itemprop its attributes, text the string of a text node.            *)
(***************************************************************************)
Elem(tag, class) ==
    [d |-> 0, tag |-> tag, class |-> class, itemprop |-> "", text |-> ""]
TextNode(str) ==
    [d |-> 0, tag |-> "#text", class |-> "", itemprop |-> "", text |-> str]

\* the subtree of an element with these nodes below it
Under(parent, below) ==
    <<parent>> \o [i \in 1..Len(below) |-> [below[i] EXCEPT !.d = @ + 1]]

RECURSIVE Flat(_)
Flat(trees) == IF trees = <<>> THEN <<>> ELSE Head(trees) \o Flat(Tail(trees))

\* position of the last node of the subtree at i (i = 0: the whole document)
SubtreeEnd(doc, i) ==
    IF i = 0 THEN Len(doc)
    ELSE LET after == {j \in (i + 1)..Len(doc) : doc[j].d <= doc[i].d} IN
         IF after = {} THEN Len(doc)
         ELSE (CHOOSE j \in after : \A k \in after : j <= k) - 1

\* a CSS selector of the two lists: a tag name, .token, [class*="part"],
\* [itemprop="value"]
Sel(by, v) == [by |-> by, v |-> v]

CONTENT_SELECTORS ==
    <<Sel("tag", "article"),
      Sel("class*", "article-body"), Sel("class*", "article-content"),
      Sel("class*", "post-content"), Sel("class*", "entry-content"),
      Sel("class*", "story-body"), Sel("class*", "content-body"),
      Sel("itemprop", "articleBody"),
      Sel("class", "article__body"), Sel("class", "article-text"),
      Sel("class", "story-content"),
      Sel("tag", "main")>>

REMOVE_SELECTORS ==
    <<Sel("tag", "script"), Sel("tag", "style"), Sel("tag", "nav"),
      Sel("tag", "header"), Sel("tag", "footer"), Sel("tag", "aside"),
      Sel("class", "advertisement"), Sel("class", "ad"), Sel("class", "ads"),
      Sel("class", "social-share"), Sel("class", "related-articles"),
      Sel("class", "comments"), Sel("class", "sidebar"),
      Sel("class*", "newsletter"), Sel("class*", "subscribe"),
      Sel("class*", "popup"), Sel("class*", "modal")>>

\* whether an element matches a selector: .token asks for one of the
\* space-separated class names, [class*=] for a substring of the attribute
Matches(sel, n) ==
    /\ n.tag # "#text"
    /\ CASE sel.by = "tag"      -> n.tag = sel.v
         [] sel.by = "class"    -> Contains(" " \o n.class \o " ", " " \o sel.v \o " ")
         [] sel.by = "class*"   -> Contains(n.class, sel.v)
         [] sel.by = "itemprop" -> n.itemprop = sel.v

\* soup.select(selector): the positions of the matching elements
Select(doc, sel) == {i \in 1..Len(doc) : Matches(sel, doc[i])}

Decompose_element_only(doc, elements) ==
    LET RECURSIVE Keep(_)
        Keep(j) == IF j > Len(doc) THEN <<>>
                   ELSE (IF j \in elements THEN <<>> ELSE <<doc[j]>>) \o Keep(j + 1)
    IN Keep(1)

\* element.decompose() for each of these elements: their subtrees leave the tree
Decompose(doc, elements) ==
    LET gone == {j \in 1..Len(doc) :
                    \E i \in elements : i <= j /\ j <= SubtreeEnd(doc, i)}
        RECURSIVE Keep(_)
        Keep(j) == IF j > Len(doc) THEN <<>>
                   ELSE (IF j \in gone THEN <<>> ELSE <<doc[j]>>) \o Keep(j + 1)
    IN Keep(1)

\* lines 96-99, from selector k of REMOVE_SELECTORS on
RECURSIVE RemoveUnwanted(_, _)
RemoveUnwanted(doc, k) ==
    IF k > Len(REMOVE_SELECTORS) THEN doc
    ELSE RemoveUnwanted(Decompose(doc, Select(doc, REMOVE_SELECTORS[k])), k + 1)

\* str.strip()
Strip(str) ==
    LET RECURSIVE Left(_)
        Left(i) == IF i <= Len(str) /\ Contains(SpaceChars, Char(str, i))
                   THEN Left(i + 1) ELSE i
        RECURSIVE Right(_)
        Right(i) == IF i >= 1 /\ Contains(SpaceChars, Char(str, i))
                    THEN Right(i - 1) ELSE i
    IN SubSeq(str, Left(1), Right(Len(str)))

\* separator.join(strings)
RECURSIVE JoinWith(_, _)
JoinWith(strings, separator) ==
    IF strings = <<>> THEN ""
    ELSE IF Len(strings) = 1 THEN Head(strings)
    ELSE Head(strings) \o separator \o JoinWith(Tail(strings), separator)

\* element.get_text(separator, strip) for the element at i: the strings of the
\* text nodes below it, each stripped and the empty ones dropped when strip is
\* set, joined by the separator
get_text(doc, i, separator, strip) ==
    LET last == SubtreeEnd(doc, i)
        RECURSIVE Strings(_)
        Strings(j) ==
            IF j > last THEN <<>>
            ELSE LET str == IF strip THEN Strip(doc[j].text) ELSE doc[j].text IN
                 (IF doc[j].tag # "#text" \/ (strip /\ str = "") THEN <<>>
                  ELSE <<str>>) \o Strings(j + 1)
    IN JoinWith(Strings(IF i = 0 THEN 1 ELSE i), separator)

MaxByText_first(doc, elements) == CHOOSE c \in elements : \A j \in elements : c <= j

\* max(elements, key=lambda x: len(x.get_text())): the first of the longest
MaxByText(doc, elements) ==
    CHOOSE c \in elements :
        \A j \in elements :
            LET lc == Len(get_text(doc, c, "", FALSE))
                lj == Len(get_text(doc, j, "", FALSE))
            IN lj < lc \/ (lj = lc /\ c <= j)

\* lines 103-107: the first selector from k on that selects something, 0 if none
RECURSIVE FirstMatching(_, _)
FirstMatching(doc, k) ==
    IF k > Len(CONTENT_SELECTORS) THEN 0
    ELSE IF Select(doc, CONTENT_SELECTORS[k]) # {} THEN k
    ELSE FirstMatching(doc, k + 1)

\* lines 102-110: content; soup.body is the first body element
Container(doc) ==
    LET k == FirstMatching(doc, 1)
        bodies == Select(doc, Sel("tag", "body"))
    IN IF k # 0 THEN MaxByText(doc, Select(doc, CONTENT_SELECTORS[k]))
       ELSE IF bodies # {} THEN CHOOSE b \in bodies : \A j \in bodies : b <= j
       ELSE 0

\* re.sub(r'\n{3,}', '\n\n', str); long strings are cut at a character that is
\* no newline, which no run of newlines spans
RECURSIVE CollapseNewlines(_)
CollapseNewlines(str) ==
    LET RECURSIVE Cut(_)
        Cut(i) == IF i > Len(str) \/ Char(str, i) # "\n" THEN i ELSE Cut(i + 1)
        m == Cut(Len(str) \div 2 + 1)
        k == Find(str, "\n\n\n", 1)
    IN IF Len(str) > 32 /\ m < Len(str)
       THEN CollapseNewlines(SubSeq(str, 1, m)) \o CollapseNewlines(From(str, m + 1))
       ELSE IF k = 0 THEN str
       ELSE SubSeq(str, 1, k - 1) \o CollapseNewlines(From(str, k + 1))

\* _extract_text(element) for the element at c
extract_text(doc, c) ==
    LET last == SubtreeEnd(doc, c)
        paragraphs == {j \in (c + 1)..last : doc[j].tag \in {"p", "h2", "h3", "blockquote"}}
        RECURSIVE Texts(_)
        Texts(j) ==
            IF j > last THEN <<>>
            ELSE LET str == get_text(doc, j, "", TRUE) IN
                 (IF j \in paragraphs /\ str # "" /\ Len(str) > 20 THEN <<str>>
                  ELSE <<>>) \o Texts(j + 1)
    IN IF paragraphs # {} THEN JoinWith(Texts(c + 1), "\n\n")
       ELSE CollapseNewlines(get_text(doc, c, "\n", TRUE))

MaxItems == 2
MaxExtras == 2

\* what a container holds: a long paragraph, paragraphs at the 20-character
\* threshold, a paragraph with a link inside, text outside any paragraph
Items ==
    {Under(Elem("p", ""),
           <<TextNode("\n  Parliament approved the long-awaited infrastructure bill late on Tuesday after a marathon session, 312 to 118.  \n")>>),
     Under(Elem("p", ""), <<TextNode("Twenty characters ok")>>),
     Under(Elem("h2", ""), <<TextNode(" Twenty-one characters\n")>>),
     Under(Elem("p", ""),
           <<TextNode("The minister ")>>
           \o Under(Elem("a", ""), <<TextNode("said on Monday")>>)
           \o <<TextNode(" that the vote stands.")>>),
     <<TextNode("Live updates follow.\n\n\n\nRefresh this page for the latest.\n")>>}

\* the elements that can wrap the first items of a page
Wrappers == {Elem("article", ""), Elem("div", "wide article-body")}

\* the blocks that can follow: a second article of the same length, a longer
\* main, and blocks of advertising, sign-up and navigation
Extras ==
    {Under(Elem("article", ""),
           Under(Elem("p", ""),
                 <<TextNode("Parliament rejected the long-awaited infrastructure bill late on Tuesday after a marathon session, 312 to 118.      ")>>)),
     Under(Elem("main", ""),
           Under(Elem("p", ""),
                 <<TextNode("The bill now goes to the upper house, where the government lacks a majority and faces a long fight over amendments to it.")>>)
           \o Under(Elem("blockquote", ""),
                    <<TextNode("We will not let this pass unchanged.")>>)),
     Under(Elem("div", "ad"),
           Under(Elem("p", ""),
                 <<TextNode("Limited offer: subscribe today and save 40% on your first year of unlimited digital access to all our stories.")>>)),
     Under(Elem("div", "ad-banner"),
           Under(Elem("p", ""),
                 <<TextNode("Sponsored: compare the best savings accounts of the year and earn up to 5% interest with no fees, only this week.")>>)),
     Under(Elem("section", "email-newsletter-box"),
           Under(Elem("p", ""), <<TextNode("Get the morning briefing in your inbox.")>>)),
     Under(Elem("nav", "menu"), <<TextNode("Home World Politics Business")>>)}

\* the pages: first items, bare or wrapped, in a body or without one; and at
\* most one first item, bare or wrapped, then extras, in a body
Docs ==
    LET ItemSeqs == UNION {[1..n -> Items] : n \in 0..MaxItems}
        ExtraSeqs == UNION {[1..n -> Extras] : n \in 0..MaxExtras}
        Wrapped(seqs) == {Flat(its) : its \in seqs}
                         \cup {Under(w, Flat(its)) : w \in Wrappers, its \in seqs}
        Firsts == Wrapped(ItemSeqs)
        Bodies == Firsts
                  \cup {f \o Flat(xs) : f \in Wrapped({its \in ItemSeqs : Len(its) <= 1}),
                                         xs \in ExtraSeqs}
    IN Firsts \cup {Under(Elem("body", ""), b) : b \in Bodies}

\* what session.get(url, timeout=15) can meet: no response at all, or a final
\* response with a status, a parser outcome and the page the parser builds
\* (lxml always supplies a body element, html.parser only when the page has one)
PageResponses ==
    {[kind |-> k, status |-> 0, parser |-> "", page |-> <<>>] :
        k \in {"timeout", "connection_error", "tls_error"}}
    \cup {[kind |-> "response", status |-> 200,
           parser |-> IF Select(d, Sel("tag", "body")) # {} THEN "lxml" ELSE "html.parser",
           page |-> d] : d \in Docs}
    \cup [kind : {"response"}, status : {200, 204, 300, 404, 500},
          parser : {"lxml", "error"},
          page : {Under(Elem("body", ""), x) : x \in Extras}]

InitPage ==
    /\ Idle("page")
    /\ x_pc = "call"
    /\ \/ x_url = Str("https://www.example.com/world/story-1") /\ x_resp \in PageResponses
       \/ /\ x_url \in {None, Str("")}
          /\ x_resp \in {r \in PageResponses : r.kind = "timeout"}
    /\ x_soup = <<>> /\ x_content = 0 /\ x_text = "" /\ x_out = None

\* lines 83-94: no request for an empty url; the request, the status check and
\* the parse, any exception of which ends the call with None (lines 119-120)
PageGet ==
    /\ x_pc = "call"
    /\ IF ~ Truthy(x_url)
          \/ x_resp.kind # "response"
          \/ RaisesForStatus(x_resp.status)
          \/ x_resp.parser = "error"
       THEN x_pc' = "done" /\ x_soup' = x_soup
       ELSE x_pc' = "remove" /\ x_soup' = x_resp.page
    /\ UNCHANGED <<x_url, x_resp, x_content, x_text, x_out>> /\ Frame("page")

\* lines 96-99
PageRemove ==
    /\ x_pc = "remove"
    /\ x_soup' = RemoveUnwanted(x_soup, 1)
    /\ x_pc' = "select"
    /\ UNCHANGED <<x_url, x_resp, x_content, x_text, x_out>> /\ Frame("page")

\* lines 101-110
PageSelect ==
    /\ x_pc = "select"
    /\ x_content' = Container(x_soup)
    /\ x_pc' = "extract"
    /\ UNCHANGED <<x_url, x_resp, x_soup, x_text, x_out>> /\ Frame("page")

\* line 112
PageExtract ==
    /\ x_pc = "extract"
    /\ x_text' = extract_text(x_soup, x_content)
    /\ x_pc' = "floor"
    /\ UNCHANGED <<x_url, x_resp, x_soup, x_content, x_out>> /\ Frame("page")

\* lines 114-117
PageReturn ==
    /\ x_pc = "floor"
    /\ x_out' = IF TooShort(Len(x_text)) THEN None ELSE Str(x_text)
    /\ x_pc' = "done"
    /\ UNCHANGED <<x_url, x_resp, x_soup, x_content, x_text>> /\ Frame("page")

NextPage == PageGet \/ PageRemove \/ PageSelect \/ PageExtract \/ PageReturn

SpecPage == InitPage /\ [][NextPage]_vars

(***************************************************************************)
(* NewsTerminalUI (ui.py): the article list, the selection and the         *)
(* category.  An article is written as the number the feed gave it; Python *)
(* positions count from 0, positions of a sequence here from 1.            *)
(***************************************************************************)
MaxArticles == 3

\* the lists a caller can hand to render_articles
ArticleLists == UNION {[1..n -> 1..2] : n \in 0..MaxArticles}

\* self.category_names (its keys)
category_names == {"1", "2", "3", "4", "5"}

\* get_selected_article()
get_selected_article(articles, index) ==
    IF 0 <= index /\ index < Len(articles) THEN [t |-> "article", v |-> articles[index + 1]]
    ELSE None

\* __init__
InitUI ==
    /\ Idle("ui")
    /\ ui_articles = <<>> /\ selected_index = 0 /\ ui_category = "1"
    /\ ui_selected = None

\* render_articles(articles): line 92; the rest builds the panel
RenderArticles ==
    /\ \E articles \in ArticleLists : ui_articles' = articles
    /\ UNCHANGED <<selected_index, ui_category, ui_selected>> /\ Frame("ui")

NavigateUp ==
    /\ selected_index' = IF selected_index > 0 THEN selected_index - 1
                         ELSE selected_index
    /\ UNCHANGED <<ui_articles, ui_category, ui_selected>> /\ Frame("ui")

NavigateDown ==
    /\ selected_index' = IF selected_index < Len(ui_articles) - 1
                         THEN selected_index + 1 ELSE selected_index
    /\ UNCHANGED <<ui_articles, ui_category, ui_selected>> /\ Frame("ui")

\* set_category(category), also with a key that names no category
SetCategory ==
    /\ \E category \in category_names \cup {"9"} :
          IF category \in category_names
          THEN ui_category' = category /\ selected_index' = 0
          ELSE UNCHANGED <<ui_category, selected_index>>
    /\ UNCHANGED <<ui_articles, ui_selected>> /\ Frame("ui")

GetSelected ==
    /\ ui_selected' = get_selected_article(ui_articles, selected_index)
    /\ UNCHANGED <<ui_articles, selected_index, ui_category>> /\ Frame("ui")

NextUI == RenderArticles \/ NavigateUp \/ NavigateDown \/ SetCategory \/ GetSelected

SpecUI == InitUI /\ [][NextUI]_vars

\* C20 as stated: after any sequence of navigate_up, navigate_down, set_category
\* and render_articles calls, selected_index is never negative and, when the
\* list is not empty, is a position of it, so that get_selected_article returns
\* an article of the list; it returns None only when the list is empty.
C20_SelectedIndexValid ==
    /\ selected_index >= 0
    /\ ui_articles # <<>> =>
          /\ selected_index < Len(ui_articles)
          /\ get_selected_article(ui_articles, selected_index) # None

(***************************************************************************)
(* NewsTerminalApp (main.py).  Textual runs the handlers of an app one at  *)
(* a time on its event loop and none of them awaits, so each handler is    *)
(* one step.  An article is written as its number in the feed.             *)
(***************************************************************************)
MaxListed  == 15     \* self.articles[:15]
MaxFetched == 16     \* the longest feed the API answers with here

\* what get_top_headlines(...).get("articles", []) can be: a request error gives
\* the empty list, a feed can be longer than the list view shows
ApiResults == {<<>>, <<1>>, <<2, 1>>, [i \in 1..MaxFetched |-> i]}

\* the article of the feed whose "url" is missing
NoUrlArticle == 2

\* self.categories (its keys)
categories == {"1", "2", "3", "4", "5"}

\* load_news(), given what the API answers
LoadNews(feed) ==
    /\ app_articles' = feed
    /\ list_items' = SubSeq(feed, 1, IF Len(feed) < MaxListed THEN Len(feed)
                                       ELSE MaxListed)
    /\ detail_display' = FALSE
    /\ list_display' = TRUE
    /\ showing_detail' = FALSE

AutoRefreshAllowed_always(showing) == TRUE

\* auto_refresh: if not self.showing_detail
AutoRefreshAllowed(showing) == ~showing

\* __init__ and compose: both containers are displayed until load_news runs
InitApp ==
    /\ Idle("app")
    /\ app_pc = "new" /\ app_articles = <<>> /\ app_category = "1"
    /\ current_article = None /\ showing_detail = FALSE /\ list_items = <<>>
    /\ list_display = TRUE /\ detail_display = TRUE /\ detail = None
    /\ app_last = [op |-> "init", loaded |-> FALSE]

\* on_mount: without an API key get_api_key raises ValueError and the app exits
Mount ==
    /\ app_pc = "new"
    /\ \E has_key \in BOOLEAN :
          IF has_key
          THEN /\ \E feed \in ApiResults : LoadNews(feed)
               /\ app_pc' = "running"
               /\ app_last' = [op |-> "on_mount", loaded |-> TRUE]
          ELSE /\ app_pc' = "exited"
               /\ app_last' = [op |-> "on_mount", loaded |-> FALSE]
               /\ UNCHANGED <<app_articles, list_items, detail_display, list_display,
                              showing_detail>>
    /\ UNCHANGED <<app_category, current_article, detail>> /\ Frame("app")

\* auto_refresh, called by the interval timer that on_mount started
AutoRefresh ==
    /\ app_pc = "running"
    /\ IF AutoRefreshAllowed(showing_detail)
       THEN /\ \E feed \in ApiResults : LoadNews(feed)
            /\ app_last' = [op |-> "auto_refresh", loaded |-> TRUE]
       ELSE /\ app_last' = [op |-> "auto_refresh", loaded |-> FALSE]
            /\ UNCHANGED <<app_articles, list_items, detail_display, list_display,
                           showing_detail>>
    /\ UNCHANGED <<app_pc, app_category, current_article, detail>> /\ Frame("app")

\* action_refresh (key r, refresh button)
Refresh ==
    /\ app_pc = "running"
    /\ \E feed \in ApiResults : LoadNews(feed)
    /\ app_last' = [op |-> "refresh", loaded |-> TRUE]
    /\ UNCHANGED <<app_pc, app_category, current_article, detail>> /\ Frame("app")

\* switch_category(cat_id) (keys 1-5, category buttons)
SwitchCategory ==
    /\ app_pc = "running"
    /\ \E cat_id \in categories :
          IF cat_id = app_category
          THEN /\ app_last' = [op |-> "switch_category", loaded |-> FALSE]
               /\ UNCHANGED <<app_category, app_articles, list_items, detail_display,
                              list_display, showing_detail>>
          ELSE /\ app_category' = cat_id
               /\ \E feed \in ApiResults : LoadNews(feed)
               /\ app_last' = [op |-> "switch_category", loaded |-> TRUE]
    /\ UNCHANGED <<app_pc, current_article, detail>> /\ Frame("app")

\* on_article_selected -> show_article(article), for an item of the list view;
\* fetch_article runs only when the article has a url
ShowArticle ==
    /\ app_pc = "running"
    /\ \E i \in 1..Len(list_items) :
          LET article == list_items[i]
          IN  /\ current_article' = [t |-> "article", v |-> article]
              /\ \E source_info \in IF article # NoUrlArticle
                                    THEN {"original", "alternative", "failed"}
                                    ELSE {"failed"} :
                    detail' = [t |-> "detail", article |-> article,
                               source_info |-> source_info]
    /\ list_display' = FALSE
    /\ detail_display' = TRUE
    /\ showing_detail' = TRUE
    /\ app_last' = [op |-> "show_article", loaded |-> FALSE]
    /\ UNCHANGED <<app_pc, app_articles, app_category, list_items>> /\ Frame("app")

\* action_back (escape, back button)
Back ==
    /\ app_pc = "running"
    /\ IF showing_detail
       THEN detail_display' = FALSE /\ list_display' = TRUE /\ showing_detail' = FALSE
       ELSE UNCHANGED <<detail_display, list_display, showing_detail>>
    /\ app_last' = [op |-> "back", loaded |-> FALSE]
    /\ UNCHANGED <<app_pc, app_articles, app_category, current_article, list_items,
                   detail>>
    /\ Frame("app")

NextApp == Mount \/ AutoRefresh \/ Refresh \/ SwitchCategory \/ ShowArticle \/ Back

SpecApp == InitApp /\ [][NextApp]_vars

\* C19: a timer tick while an article detail is showing changes nothing
\* (articles, category, list and detail view stay as they are); a tick while
\* the list is showing reloads the news; after every load_news (refresh,
\* category switch or auto-refresh) the list is displayed, the detail hidden and
\* showing_detail False; showing_detail becomes True only by show_article and is
\* False again after back, refresh or a switch to another category.
C19_AutoRefreshOnlyInListView ==
    [][ /\ (app_last'.op = "auto_refresh" /\ showing_detail) =>
              UNCHANGED <<app_pc, app_articles, app_category, current_article,
                          showing_detail, list_items, list_display, detail_display,
                          detail>>
        /\ (app_last'.op = "auto_refresh" /\ ~showing_detail) =>
              app_last'.loaded /\ app_articles' \in ApiResults
        /\ app_last'.loaded =>
              /\ ~showing_detail' /\ list_display' /\ ~detail_display'
              /\ app_last'.op \in {"on_mount", "auto_refresh", "refresh",
                                   "switch_category"}
        /\ app_last'.op = "refresh" => app_last'.loaded
        /\ (app_last'.op = "switch_category" /\ app_category' # app_category) =>
              app_last'.loaded
        /\ (~showing_detail /\ showing_detail') => app_last'.op = "show_article"
        /\ (showing_detail /\ showing_detail') =>
              \/ app_last'.op \in {"auto_refresh", "show_article"}
              \/ app_last'.op = "switch_category" /\ app_category' = app_category
        /\ showing_detail' => ~list_display' /\ detail_display' /\ detail' # None
      ]_appVars

\* a tick has just fired while an article detail was showing
C19_Witness ==
    /\ app_last = [op |-> "auto_refresh", loaded |-> FALSE]
    /\ showing_detail /\ detail_display /\ detail # None

(***************************************************************************)
(* The API key store (config.py).  CONFIG_FILE is a file other programs    *)
(* and the user can write too: it is None when missing, else it has a mode *)
(* ("rw", "r" read-only, "none" no access) and data, a text or bytes that  *)
(* are no text in the encoding open() uses.                                *)
(***************************************************************************)
\* what is passed to save_api_key and what is typed at the prompt
KeyTexts == {"", "  ", "abc123", " abc123 ", "k\"9\\z"}

\* json.dump({"api_key": api_key}, f, indent=2): a quote and a backslash of the
\* key are written with a backslash before them
JsonDump(api_key) ==
    "{\n  \"api_key\": \""
      \o Replace(Replace(api_key, "\\", "\\\\"), "\"", "\\\"")
      \o "\"\n}"

\* json.load(f) of a text: the value, or invalid where JSONDecodeError is raised.
\* A dict is given by what .get("api_key") finds in it (None when it has no
\* such key).
JsonLoad(text) ==
    LET RECURSIVE Unescape(_)
        Unescape(str) ==
            IF str = "" THEN ""
            ELSE IF Char(str, 1) = "\\" /\ Len(str) >= 2
            THEN Char(str, 2) \o Unescape(From(str, 3))
            ELSE Char(str, 1) \o Unescape(From(str, 2))
        Dict(v) == [t |-> "dict", api_key |-> v]
        head == "{\n  \"api_key\": \""
        tail == "\"\n}"
    IN  CASE text = "[]" -> [t |-> "list"]
          [] text = "null" -> None
          [] text = "{}" -> Dict(None)
          [] text = "{\"api_key\": null}" -> Dict(None)
          [] text = "{\"api_key\": \"\"}" -> Dict(Str(""))
          [] Len(text) >= Len(head) + Len(tail) /\ StartsWith(text, head)
               /\ From(text, Len(text) - Len(tail) + 1) = tail ->
                 Dict(Str(Unescape(SubSeq(text, Len(head) + 1, Len(text) - Len(tail)))))
          [] OTHER -> [t |-> "invalid"]

\* the files found at the first call: missing, or one of these data in a mode
FileContents ==
    {[t |-> "bytes"]}
    \cup {[t |-> "text", v |-> v] :
            v \in {"", "api_key=abc123", "[]", "null", "{}", "{\"api_key\": null}",
                   "{\"api_key\": \"\"}", JsonDump("abc123")}}

\* save_api_key(api_key) on file: opening for writing fails on a file that may
\* not be written and leaves it as it is; a missing file is created
save_api_key(file, api_key) ==
    IF file # None /\ file.mode # "rw"
    THEN [raised |-> "PermissionError", file |-> file]
    ELSE [raised |-> "",
          file |-> [t |-> "file", mode |-> "rw",
                    data |-> [t |-> "text", v |-> JsonDump(api_key)]]]

InitConfig ==
    /\ Idle("config")
    /\ config_file \in {None} \cup [t : {"file"}, mode : {"rw", "r", "none"},
                                    data : FileContents]
    /\ cfg_saved = None
    /\ cfg_last = [op |-> "init"]

SaveApiKey ==
    /\ \E api_key \in KeyTexts :
          LET r == save_api_key(config_file, api_key) IN
          /\ config_file' = r.file
          /\ cfg_saved' = IF r.raised = "" THEN Str(api_key) ELSE cfg_saved
          /\ cfg_last' = [op |-> "save_api_key", arg |-> api_key, out |-> None,
                          raised |-> r.raised, prompted |-> FALSE]
    /\ Frame("config")

\* clear_api_key(): os.remove needs no access to the file itself
ClearApiKey ==
    /\ config_file' = None
    /\ cfg_saved' = None
    /\ cfg_last' = [op |-> "clear_api_key", arg |-> "", out |-> None,
                    raised |-> "", prompted |-> FALSE]
    /\ Frame("config")

\* get_api_key(), with what the user types if the prompt comes
GetApiKey ==
    /\ \E entry \in KeyTexts :
          LET Done(out, exc, asked, file) ==
                  /\ config_file' = file
                  /\ cfg_saved' = IF asked /\ out # None THEN out ELSE cfg_saved
                  /\ cfg_last' = [op |-> "get_api_key", arg |-> entry, out |-> out,
                                  raised |-> exc, prompted |-> asked]
              \* lines 24-39
              Prompt ==
                  LET api_key == Strip(entry) IN
                  IF api_key # ""
                  THEN LET r == save_api_key(config_file, api_key) IN
                       IF r.raised = "" THEN Done(Str(api_key), "", TRUE, r.file)
                       ELSE Done(None, r.raised, TRUE, r.file)
                  ELSE Done(None, "ValueError", TRUE, config_file)
          IN  \* lines 15-22
              IF config_file = None THEN Prompt
              ELSE IF config_file.mode = "none" THEN Prompt
              ELSE IF config_file.data.t = "bytes"
              THEN Done(None, "UnicodeDecodeError", FALSE, config_file)
              ELSE LET config == JsonLoad(config_file.data.v) IN
                   IF config.t = "invalid" THEN Prompt
                   ELSE IF config.t # "dict"
                   THEN Done(None, "AttributeError", FALSE, config_file)
                   ELSE IF Truthy(config.api_key)
                   THEN Done(config.api_key, "", FALSE, config_file)
                   ELSE Prompt
    /\ Frame("config")

NextConfig == SaveApiKey \/ ClearApiKey \/ GetApiKey

SpecConfig == InitConfig /\ [][NextConfig]_vars

\* the files the claim speaks of as holding no key: missing, unreadable, or
\* without a non-empty api_key entry
NoStoredKey(file) ==
    \/ file = None
    \/ file.mode = "none"
    \/ file.data.t = "bytes"
    \/ LET config == JsonLoad(file.data.v) IN
       config.t # "dict" \/ ~ Truthy(config.api_key)

\* C21 as stated: after save_api_key(k) with a non-empty k, get_api_key returns
\* k without prompting until the next save_api_key or clear_api_key; after
\* clear_api_key, or with a missing, unreadable or key-less config file,
\* get_api_key prompts, a non-empty entry is saved and returned, and an empty
\* entry raises ValueError and leaves the stored configuration unchanged.  (The
\* entry is taken as typed with the white space around it stripped.)
C21_KeyStorageRoundTrips ==
    [][cfg_last'.op = "get_api_key" =>
         /\ (cfg_saved # None /\ cfg_saved.v # "") =>
               /\ cfg_last'.out = cfg_saved
               /\ ~ cfg_last'.prompted /\ cfg_last'.raised = ""
               /\ config_file' = config_file
         /\ NoStoredKey(config_file) =>
               /\ cfg_last'.prompted
               /\ IF Strip(cfg_last'.arg) # ""
                  THEN /\ cfg_last'.out = Str(Strip(cfg_last'.arg))
                       /\ cfg_last'.raised = ""
                       /\ config_file' # None
                       /\ config_file'.data =
                             [t |-> "text", v |-> JsonDump(Strip(cfg_last'.arg))]
                  ELSE /\ cfg_last'.raised = "ValueError"
                       /\ config_file' = config_file
      ]_configVars

(***************************************************************************)
(* The claims about fetch_article, stated on its result and on the         *)
(* requests it made.                                                       *)
(***************************************************************************)
ReqIdx     == 1..Len(requests)
SearchIdx  == {k \in ReqIdx : requests[k].kind = "search"}
PrimaryIdx == {k \in ReqIdx : requests[k].kind = "scrape" /\ requests[k].cand = 0}
CandIdx    == {k \in ReqIdx : requests[k].kind = "scrape" /\ requests[k].cand > 0}

Returned      == pc = "done" /\ ~ raised
TitlePresent  == title # None /\ title # Str("")
IsAlternative == StartsWith(result[2], "alternative: ")
PrimaryFailed == \A k \in PrimaryIdx : ~ requests[k].yielded
\* candidate j is not the original url
Eligible(j)   == Str(alt_urls[j]) # url
FetchedAs(j)  == {k \in CandIdx : requests[k].cand = j}

\* C1: fetch_article never raises, whatever the url, the title and the network
\* do; it returns a pair whose label is "original", "alternative: <domain>" or
\* "failed".
C1_NeverRaises ==
    /\ ~ raised
    /\ pc = "done" =>
          /\ result # NoResult
          /\ \/ result[2] \in {"original", "failed"}
             \/ \E j \in 1..Len(alt_urls) :
                   result[2] = "alternative: " \o get_domain(alt_urls[j])

\* a malformed url made the request raise, the exception was absorbed and the
\* call returned
C1_Witness ==
    /\ Returned /\ caught /\ url = Str("not a url") /\ title = None
    /\ Len(requests) = 1

\* C2: the text of a result is None or at least 100 characters long, on the
\* primary path and on the alternative path.
C2_TextAtLeast100 ==
    Returned =>
        \/ result[1] = None
        \/ result[1].t = "text" /\ result[1].len >= 100

\* a candidate's text of exactly 100 characters is returned
C2_Witness ==
    /\ Returned /\ IsAlternative /\ result[1].len = 100
    /\ Cardinality(CandIdx) >= 1

\* C3: the search is invoked at most once, only after the primary scrape failed
\* and with a title present; a primary success gives (text, "original") with no
\* search and no candidate fetch; an absent title with a primary failure gives
\* (None, "failed") with no search.
C3_SearchOnlyAfterPrimaryFailure ==
    /\ Cardinality(SearchIdx) <= 1
    /\ \A k \in SearchIdx :
          /\ TitlePresent
          /\ \A j \in 1..(k - 1) : j \in PrimaryIdx /\ ~ requests[j].yielded
    /\ \A k \in CandIdx : \E j \in SearchIdx : j < k
    /\ (Returned /\ ~ PrimaryFailed) =>
          /\ result = <<Text(url.v, result[1].len), "original">>
          /\ SearchIdx = {} /\ CandIdx = {}
    /\ (Returned /\ PrimaryFailed /\ ~ TitlePresent) =>
          /\ result = <<None, "failed">>
          /\ SearchIdx = {}

\* the primary request failed, the title was present, the search ran once and a
\* candidate was fetched
C3_Witness ==
    /\ Returned /\ PrimaryIdx # {} /\ Cardinality(SearchIdx) = 1 /\ CandIdx # {}

\* C4: candidates are scraped one at a time in list order; the first one that
\* yields text ends the call, its text is returned under the label of its own
\* domain, and no later candidate is fetched.
C4_FirstSuccessInOrder ==
    /\ \A j, k \in CandIdx : j < k => requests[j].cand < requests[k].cand
    /\ \A k \in CandIdx :
          /\ requests[k].cand <= Len(alt_urls)
          /\ requests[k].target = alt_urls[requests[k].cand]
          /\ requests[k].yielded => (k = Len(requests) /\ pc = "done")
    /\ pc = "loop" =>
          \A j \in 1..Len(alt_urls) :
              (j < idx /\ Eligible(j)) <=> FetchedAs(j) # {}
    /\ (Returned /\ IsAlternative) =>
          LET last == requests[Len(requests)]
              j    == last.cand
          IN /\ last.kind = "scrape" /\ j > 0 /\ last.yielded
             /\ result[1] = Text(alt_urls[j], result[1].len)
             /\ result[2] = "alternative: " \o get_domain(alt_urls[j])
             /\ \A i \in 1..(j - 1) :
                   Eligible(i) => \E k \in FetchedAs(i) : ~ requests[k].yielded
             /\ \A i \in (j + 1)..Len(alt_urls) : FetchedAs(i) = {}

\* the first candidate failed, the second one, of another domain, gave the text,
\* and a third one was left unfetched
C4_Witness ==
    /\ Returned /\ IsAlternative /\ Len(alt_urls) >= 3
    /\ requests[Len(requests)].cand = 2
    /\ FetchedAs(1) # {}
    /\ get_domain(alt_urls[1]) # get_domain(alt_urls[2])

\* C5: the result is (None, "failed") exactly when the primary scrape fails and
\* the title is absent, or the search gives no candidate, or every candidate
\* other than the original url fails; otherwise the result holds a text labelled
\* "original" or "alternative: ...".
C5_FailedExactlyWhen ==
    Returned =>
        LET allFail == \A j \in 1..Len(alt_urls) :
                           Eligible(j) =>
                               /\ FetchedAs(j) # {}
                               /\ \A k \in FetchedAs(j) : ~ requests[k].yielded
        IN /\ (result = <<None, "failed">>) <=>
                  (PrimaryFailed /\ (~ TitlePresent \/ alt_urls = <<>> \/ allFail))
           /\ result # <<None, "failed">> =>
                  /\ result[1] # None
                  /\ result[2] = "original" \/ IsAlternative

\* every candidate other than the original url was fetched and failed
C5_Witness ==
    /\ Returned /\ result = <<None, "failed">> /\ TitlePresent
    /\ Len(alt_urls) >= 2 /\ Cardinality(CandIdx) >= 1
    /\ \E j \in 1..Len(alt_urls) : ~ Eligible(j)

\* C6: a candidate equal to the original url is passed over without a request:
\* among the page requests of a call (the primary scrape and the candidate
\* scrapes) the original url occurs at most once, and an "alternative" result
\* never comes from such a candidate.
C6_OriginalNotFetchedAgain ==
    /\ url # None =>
          Cardinality({k \in PrimaryIdx \cup CandIdx :
                          requests[k].target = url.v}) <= 1
    /\ \A k \in CandIdx : Str(requests[k].target) # url
    /\ (Returned /\ IsAlternative) => Str(result[1].from) # url

\* the search gave the original url back as its first candidate; the text came
\* from a later one
C6_Witness ==
    /\ Returned /\ IsAlternative /\ PrimaryIdx # {}
    /\ alt_urls # <<>> /\ ~ Eligible(1)

\* C12: a failure anywhere in the search step (timeout, connection error, error
\* status, parse failure, a title that is no string, an exception while a link
\* is handled after candidates were collected) leaves fetch_article with an
\* empty list and no raised exception; no candidate is fetched and the call
\* returns (None, "failed").
C12_SearchFailureGivesNothing ==
    \A k \in SearchIdx :
        requests[k].failure # "" =>
            /\ alt_urls = <<>>
            /\ CandIdx = {}
            /\ ~ raised
            /\ pc \in {"loop", "done"}
            /\ pc = "done" => result = <<None, "failed">>

\* the loop raised after it had collected candidates, and the call returned
C12_Witness ==
    /\ Returned
    /\ \E k \in SearchIdx :
          requests[k].failure = "link_error" /\ requests[k].collected > 0

\* the requests that left: every logged scrape, and the search when it was sent
Gets == {k \in ReqIdx : requests[k].sent}

\* C18: a fetch_article call ends, and it makes at most one GET to the primary
\* url, at most one to the search endpoint and at most five to candidates, seven
\* in all; no position of the candidate list is fetched twice.
C18_AtMostSevenRequests ==
    /\ [](/\ Cardinality(PrimaryIdx) <= 1
          /\ Cardinality(SearchIdx) <= 1
          /\ Cardinality(CandIdx) <= 5
          /\ Cardinality(Gets) <= 7
          /\ \A j \in 1..Len(alt_urls) : Cardinality(FetchedAs(j)) <= 1)
    /\ <>(pc = "done")

\* a call that made all seven requests and returned
C18_Witness == Returned /\ Cardinality(Gets) = 7

(***************************************************************************)
(* The claims about _scrape_url, stated on the page it was given, on the   *)
(* tree left after the removal and on the text it extracted.               *)
(***************************************************************************)
\* the container has been chosen in the cleaned tree
Selected == x_pc \in {"extract", "floor"}
\* the selectors of CONTENT_SELECTORS that match an element of the cleaned tree
MatchingSelectors ==
    {k \in 1..Len(CONTENT_SELECTORS) : Select(x_soup, CONTENT_SELECTORS[k]) # {}}
FirstSelector == CHOOSE k \in MatchingSelectors : \A j \in MatchingSelectors : k <= j
FirstMatches == Select(x_soup, CONTENT_SELECTORS[FirstSelector])
TextLength(i) == Len(get_text(x_soup, i, "", FALSE))
BodyElements == {i \in 1..Len(x_soup) : x_soup[i].tag = "body"}
\* the fallback when no selector matches: the body, else the whole document
FallbackContainer ==
    IF BodyElements # {}
    THEN x_content \in BodyElements /\ \A b \in BodyElements : x_content <= b
    ELSE x_content = 0

\* C13 as stated: the container is a match of the first selector of
\* CONTENT_SELECTORS that matches anything, and its text is strictly longer
\* than that of every other match of that selector; with no match it is the
\* body, or the whole document when there is no body.
C13_ContainerStrictlyLongest ==
    Selected =>
        IF MatchingSelectors # {}
        THEN /\ x_content \in FirstMatches
             /\ \A j \in FirstMatches \ {x_content} : TextLength(j) < TextLength(x_content)
        ELSE FallbackContainer

\* C13, amended: the container is a match of the first selector that matches
\* anything; no other match of that selector has a longer text, and among the
\* matches of the greatest length it is the first in document order; with no
\* match it is the body, or the whole document when there is no body.
C13_ContainerFirstLongest ==
    Selected =>
        IF MatchingSelectors # {}
        THEN /\ x_content \in FirstMatches
             /\ \A j \in FirstMatches :
                   \/ TextLength(j) < TextLength(x_content)
                   \/ TextLength(j) = TextLength(x_content) /\ x_content <= j
        ELSE FallbackContainer

\* two matches of the first selector tie for the longest text, the first of
\* them was chosen, and a later selector matches an element with more text
C13_Witness ==
    /\ Selected /\ MatchingSelectors # {}
    /\ \E j \in FirstMatches :
          j > x_content /\ TextLength(j) = TextLength(x_content)
    /\ \E k \in MatchingSelectors :
          /\ k > FirstSelector
          /\ \E j \in Select(x_soup, CONTENT_SELECTORS[k]) :
                TextLength(j) > TextLength(x_content)

\* C14 as stated: once the removal has run, the tree holds no script, style,
\* nav, header, footer or aside element and no element whose class contains
\* "advertisement", "ad", "newsletter", "subscribe", "popup", "modal",
\* "comments", "related-articles" or "social-share".
C14_NoUnwantedElementLeft ==
    x_pc \in {"select", "extract", "floor"} =>
        \A i \in 1..Len(x_soup) :
            /\ x_soup[i].tag \notin {"script", "style", "nav", "header", "footer", "aside"}
            /\ \A part \in {"advertisement", "ad", "newsletter", "subscribe", "popup",
                            "modal", "comments", "related-articles", "social-share"} :
                  ~ Contains(x_soup[i].class, part)

\* the elements the removal is for: six tags, seven class names, and four
\* strings looked for anywhere in the class attribute
Unwanted(n) ==
    /\ n.tag # "#text"
    /\ \/ n.tag \in {"script", "style", "nav", "header", "footer", "aside"}
       \/ \E name \in {"advertisement", "ad", "ads", "social-share",
                       "related-articles", "comments", "sidebar"} :
             Contains(" " \o n.class \o " ", " " \o name \o " ")
       \/ \E part \in {"newsletter", "subscribe", "popup", "modal"} :
             Contains(n.class, part)

\* the page without its unwanted elements and what lies below them (node j
\* lies below element i when every node from i + 1 to j is deeper than i)
Wanted(page) ==
    LET unwanted == {i \in 1..Len(page) : Unwanted(page[i])}
        RECURSIVE From_(_)
        From_(j) ==
            IF j > Len(page) THEN <<>>
            ELSE (IF \E i \in unwanted :
                        i <= j /\ \A k \in (i + 1)..j : page[k].d > page[i].d
                  THEN <<>> ELSE <<page[j]>>) \o From_(j + 1)
    IN From_(1)

\* C14, amended: before the container is selected, every script, style, nav,
\* header, footer and aside element, every element with the class name
\* advertisement, ad, ads, social-share, related-articles, comments or sidebar,
\* and every element whose class attribute contains "newsletter", "subscribe",
\* "popup" or "modal" is removed together with its descendants: the tree the
\* container is selected in and the text is extracted from is the page without
\* these subtrees.
C14_UnwantedSubtreesRemoved ==
    x_pc \in {"select", "extract", "floor"} => x_soup = Wanted(x_resp.page)

\* an element with the class name ad went with its paragraph, one whose class
\* only contains "ad" stayed, and the text was extracted
C14_Witness ==
    /\ x_pc = "floor"
    /\ \E i \in 1..Len(x_resp.page) :
          /\ x_resp.page[i].class = "ad"
          /\ i < Len(x_resp.page) /\ x_resp.page[i + 1].tag = "p"
    /\ \E i \in 1..Len(x_soup) : x_soup[i].class = "ad-banner"
    /\ \A i \in 1..Len(x_soup) : x_soup[i].class # "ad"
    /\ Len(x_soup) = Len(x_resp.page) - 3

\* the trimmed texts, longer than 20 characters, of the paragraph-like elements
\* at j..last of the cleaned tree, in document order
RECURSIVE TrimmedParagraphs(_, _)
TrimmedParagraphs(j, last) ==
    IF j > last THEN <<>>
    ELSE LET trimmed == Strip(get_text(x_soup, j, "", FALSE)) IN
         (IF x_soup[j].tag \in {"p", "h2", "h3", "blockquote"} /\ Len(trimmed) > 20
          THEN <<trimmed>> ELSE <<>>) \o TrimmedParagraphs(j + 1, last)

\* C15 as stated: with a paragraph-like element (p, h2, h3, blockquote) below
\* the container, the text is exactly the trimmed texts of the paragraph-like
\* elements longer than 20 characters, in document order, joined by a blank
\* line; without one it is the container's full text, its strings separated by
\* newlines, with runs of 3 or more newlines collapsed to 2.
C15_ExactTrimmedParagraphs ==
    x_pc = "floor" =>
        LET last == SubtreeEnd(x_soup, x_content) IN
        IF \E j \in (x_content + 1)..last : x_soup[j].tag \in {"p", "h2", "h3", "blockquote"}
        THEN x_text = JoinWith(TrimmedParagraphs(x_content + 1, last), "\n\n")
        ELSE x_text = CollapseNewlines(get_text(x_soup, x_content, "\n", TRUE))

\* C17 as stated: _scrape_url returns None when the request times out, the
\* connection or the TLS handshake fails, or the final status is not 2xx; a
\* text is returned only from a response whose status is 2xx.
C17_TextOnlyFrom2xx ==
    (x_pc = "done" /\ x_out # None) =>
        /\ x_resp.kind = "response"
        /\ x_resp.status >= 200 /\ x_resp.status <= 299

(***************************************************************************)
(* The claims about the search, stated on the destinations of the links    *)
(* and on the host and path of a URL, not on the code's own filter.        *)
(***************************************************************************)
DenyHosts ==
    {"youtube.com", "twitter.com", "facebook.com", "instagram.com",
     "reddit.com", "wikipedia.org", "amazon.com", "ebay.com"}
DenyPaths == {"/search", "/category", "/tag/", "/author/"}

EndsWith(s, p) == Len(s) >= Len(p) /\ SubSeq(s, Len(s) - Len(p) + 1, Len(s)) = p

\* the path of an absolute or scheme-relative URL: after the host, up to "?" or "#"
UrlPath(u) ==
    LET r == AfterScheme(u)
        b == IF StartsWith(r, "//") THEN FindAny(r, "/?#", 3) ELSE 1
    IN SubSeq(r, b, FindAny(r, "?#", b) - 1)

\* u's host is a denylisted domain (or a subdomain of one), or its path holds a
\* denylisted segment, letter case ignored
Denied(u) ==
    LET host == Lower(Netloc(u))
        path == Lower(UrlPath(u))
    IN \/ \E d \in DenyHosts : host = d \/ EndsWith(host, "." \o d)
       \/ \E q \in DenyPaths : Contains(path, q)

\* the links whose href carries the redirect parameter
IsWrapped == [k \in LinkIds |-> Contains(Href(Links[k]), "uddg=")]

\* the links the search is meant to keep: a destination that is not denylisted
Accepted == [k \in LinkIds |-> Links[k].dest # "" /\ ~ Denied(Links[k].dest)]

RECURSIVE AcceptedDests(_)
AcceptedDests(page) ==
    IF page = <<>> THEN <<>>
    ELSE (IF Accepted[Head(page)] THEN <<Links[Head(page)].dest>> ELSE <<>>)
         \o AcceptedDests(Tail(page))

Take(s, n) == SubSeq(s, 1, IF Len(s) < n THEN Len(s) ELSE n)

\* C8: the search returns at most 5 candidates; it stops at the link that brings
\* the 5th accepted URL (later links are not examined), rejected links do not
\* count toward the cap, and the list keeps the order of the accepted links.
C8_CapAndOrder ==
    /\ Len(urls) <= 5
    /\ s_pc = "loop" =>
          /\ urls = AcceptedDests(SubSeq(s_page, 1, s_i - 1))
          /\ Len(urls) < 5
    /\ s_pc = "done" =>
          /\ urls = Take(AcceptedDests(s_page), 5)
          /\ IF Len(AcceptedDests(s_page)) >= 5
             THEN /\ s_i <= Len(s_page)
                  /\ Accepted[s_page[s_i]]
                  /\ Len(AcceptedDests(SubSeq(s_page, 1, s_i))) = 5
             ELSE s_i = Len(s_page) + 1

\* the cap is reached after a rejected link was passed, with links left unexamined
C8_Witness ==
    /\ s_pc = "done" /\ Len(urls) = 5 /\ s_i < Len(s_page)
    /\ \E k \in 1..s_i : ~ Accepted[s_page[k]]

\* C9: no URL collected by the search has a denylisted host or a path holding
\* /search, /category, /tag/ or /author/, whatever the letter case and whether
\* the link was redirect-wrapped or direct.
\* Denied, computed once for every URL the loop body can add for these links
Collectable == UNION {{LinkOut[k][j] : j \in 1..Len(LinkOut[k])} : k \in LinkIds}
DeniedUrl == [u \in Collectable |-> Denied(u)]

C9_NoDenylistedCandidate ==
    \A j \in 1..Len(urls) : urls[j] \in Collectable /\ ~ DeniedUrl[urls[j]]

\* a result page with a wrapped and a direct denylisted link in mixed case was
\* searched and gave a candidate
C9_Witness ==
    /\ s_pc = "done" /\ urls # <<>>
    /\ \E k \in 1..Len(s_page) :
          LET l == Links[s_page[k]] IN
          /\ l.dest # "" /\ ~ Accepted[s_page[k]] /\ l.dest # Lower(l.dest)

\* C10: a link whose href carries uddg= adds either nothing or the URL-decoded
\* value of that parameter, never the wrapper href; with an empty parameter or a
\* denylisted decoded target it adds nothing.
C10_WrappedLinkDecoded ==
    [][(s_pc = "loop" /\ s_i <= Len(s_page) /\ IsWrapped[s_page[s_i]]) =>
         LET l == Links[s_page[s_i]] IN
         /\ urls' = urls \/ urls' = Append(urls, l.dest)
         /\ urls' # Append(urls, Href(l))
         /\ ~ Accepted[s_page[s_i]] => urls' = urls]_vars

\* a wrapped link with an empty parameter was passed over and a wrapped link
\* gave its decoded destination
C10_Witness ==
    /\ s_pc = "done" /\ Len(s_page) = 2
    /\ IsWrapped[s_page[1]] /\ Links[s_page[1]].dest = ""
    /\ IsWrapped[s_page[2]] /\ urls = <<Links[s_page[2]].dest>>

====
